---- MODULE Spec2Model ----
(***************************************************************************)
(* A model of the twincare context store and request pipeline:            *)
(*   app/context/manager.py    ContextManager (Redis-backed, encrypted)    *)
(*   app/utils/encryption.py   EncryptionService (AES-GCM, base64)         *)
(*   app/protocol/mcp_client.py MCPClient.process_request                  *)
(*   app/protocol/router.py    route_request (HTTP status mapping)         *)
(*   app/agents/base_chat.py   BaseChatAgent.process                       *)
(* Workers run handlers concurrently against one shared Redis; a worker    *)
(* is interleaved with the others at every Redis round trip and at the     *)
(* agent's generation call.                                                *)
(***************************************************************************)
EXTENDS Integers, Sequences, FiniteSets, TLC

\* ---------------------------------------------------------------- bounds
\* The clock runs over 0..MaxClock (one unit is one clock reading).
MaxClock == 3
\* RedisConfig.TTL in clock units (86400 s in the default configuration).
TTL == 2
\* Nested get_context -> update_context pairs the interpreter stack allows.
RecursionLimit == 2

\* ------------------------------------------------------ program constants
Retries == 3
NONCE_LENGTH == 12
DEFAULT_AGENT == "base_chat"

\* The units of work (one handler invocation each) that run concurrently.
Procs == {"w1", "w2"}
Subjects == {"u1", "u2"}
AgentNames == {"base_chat", "triage"}
Inputs == {"hello"}
Responses == {"hi"}
\* AgentResponse.next_agent: None (all that BaseChatAgent returns), or the
\* name of an agent.
NextAgents == {"none", "base_chat"}

\* The derived key of this process and a key it does not hold.
Key == "key"
ForeignKey == "foreign"

\* os.urandom(NONCE_LENGTH): the nonces the random source can return.
Nonces == {[i \in 1..NONCE_LENGTH |-> b] : b \in {0, 1}}

\* ------------------------------------------------------------ dictionaries
\* A Python dict with string keys is a function on the set of its keys.
EmptyDict == [k \in {} |-> 0]

\* dict.update: top-level keys of new overwrite, the others are kept.
dict_update(current, new) ==
    [k \in (DOMAIN current) \cup (DOMAIN new) |->
        IF k \in DOMAIN new THEN new[k] ELSE current[k]]

\* dict.get(key, default)
dict_get(d, key, default) == IF key \in DOMAIN d THEN d[key] ELSE default

\* The record get_context builds when the key holds nothing.
NewContext(t1, t2) ==
    [created_at |-> t1, last_updated |-> t2,
     interactions |-> <<>>, agent_state |-> {}]

\* ------------------------------------------------------------------- json
\* json.dumps wraps a document as JSON text; other text is not JSON.
json_dumps(obj) == [fmt |-> "json", doc |-> obj]
NotJson == [fmt |-> "text", doc |-> EmptyDict]
IsJson(text) == text.fmt = "json"
json_loads(text) == text.doc

\* ----------------------------------------------------------------- crypto
\* AES-GCM, symbolically: the ciphertext-and-tag binds key, nonce and data.
AESGCM_encrypt(key, nonce, data) == [k |-> key, n |-> nonce, pt |-> data]
AESGCM_verifies(key, nonce, ct) == ct.k = key /\ ct.n = nonce

\* base64 text of a byte string; the empty string encodes no bytes.
b64encode(raw) == [b64 |-> raw]
b64decode(s) == s.b64
EmptyStr == b64encode(<<>>)

\* Mutant: the nonce is not emitted with the ciphertext.
encrypt_nonce_dropped(data, nonce) ==
    b64encode(<<AESGCM_encrypt(Key, nonce, data)>>)

\* EncryptionService.encrypt with the drawn nonce.
encrypt(data, nonce) ==
    b64encode(nonce \o <<AESGCM_encrypt(Key, nonce, data)>>)

Min(a, b) == IF a < b THEN a ELSE b
Max(a, b) == IF a < b THEN b ELSE a

\* EncryptionService.decrypt: ok with the plaintext, or EncryptionError.
decrypt(encrypted_data) ==
    LET raw == b64decode(encrypted_data)
        nonce == SubSeq(raw, 1, Min(NONCE_LENGTH, Len(raw)))
        ciphertext == SubSeq(raw, NONCE_LENGTH + 1, Len(raw))
    IN  IF Len(ciphertext) = 1 /\ AESGCM_verifies(Key, nonce, ciphertext[1])
        THEN [ok |-> TRUE, data |-> ciphertext[1].pt]
        ELSE [ok |-> FALSE, data |-> NotJson]

\* ------------------------------------------------------------- exceptions
Ok(v) == [exc |-> "none", msg |-> "none", value |-> v]
Raise(exc, msg) == [exc |-> exc, msg |-> msg, value |-> EmptyDict]

\* router.route_request: ValueError is a 400, any other exception a 500.
route_request(res) ==
    IF res.exc = "none" THEN 200
    ELSE IF res.exc = "ValueError" THEN 400
    ELSE 500

\* The body of the HTTP response to a failed request: detail=str(e).
http_detail(res) == res.msg

\* ------------------------------------------------------------------ redis
\* Mutant: one key for every user.
get_key_shared(user_id) == <<"context:", "u1">>

\* ContextManager._get_key: "context:" followed by the user id.
get_key(user_id) == <<"context:", user_id>>
Keys == {get_key(u) : u \in Subjects}

\* A key holds nothing, or a string that Redis removes at time exp.
AbsentEntry == [present |-> FALSE, val |-> EmptyStr, exp |-> 0]
Entry(val, exp) == [present |-> TRUE, val |-> val, exp |-> exp]

redis_get(st, key) == [present |-> st[key].present, val |-> st[key].val]
\* Mutant: the write keeps the expiry the key already has (SET with KEEPTTL).
redis_setex_keepttl(st, key, ttl, val, t) ==
    [st EXCEPT ![key] =
        Entry(val, IF st[key].present THEN st[key].exp ELSE t + ttl)]

redis_setex(st, key, ttl, val, t) == [st EXCEPT ![key] = Entry(val, t + ttl)]
\* Mutant: the key is emptied, not removed.
redis_delete_blank(st, key) == [st EXCEPT ![key] = Entry(EmptyStr, st[key].exp)]

\* DEL: the key holds nothing afterwards, whether or not it held a value.
redis_delete(st, key) == [st EXCEPT ![key] = AbsentEntry]
\* Redis removes every key whose expiry has been reached at time t.
redis_expire(st, t) ==
    [k \in DOMAIN st |->
        IF st[k].present /\ st[k].exp <= t THEN AbsentEntry ELSE st[k]]

\* Mutant: retries counted as attempts, the error raised at the third failure.
RetryExhausted_attempts(failures) == failures >= Retries

\* Retry.call_with_retry: the error is raised once failures exceed retries.
RetryExhausted(failures) == failures > Retries

\* -------------------------------------------------------- context manager
\* get_context, "if not encrypted_data": no value, or an empty string.
IsMissing(reply) == ~reply.present \/ reply.val = EmptyStr

\* get_context on a stored value: decrypt, then json.loads.
ReadContext(encrypted_data) ==
    LET d == decrypt(encrypted_data)
    IN  IF ~d.ok THEN Raise("EncryptionError", "Data integrity check failed")
        ELSE IF ~IsJson(d.data) THEN Raise("ValueError", "Invalid context data")
        ELSE Ok(json_loads(d.data))

\* The fields of a context record, and the stored values that open to one.
RecordKeys == {"created_at", "last_updated", "interactions", "agent_state"}
IsWellFormed(val) ==
    /\ val # EmptyStr
    /\ ReadContext(val).exc = "none"
    /\ RecordKeys \subseteq DOMAIN ReadContext(val).value

\* Mutant: agent_state merged key by key instead of replaced.
update_merge_deep(current_context, new_context, t) ==
    LET merged == dict_update(dict_update(current_context, new_context),
                              [last_updated |-> t])
    IN  IF "agent_state" \in (DOMAIN current_context) \cap (DOMAIN new_context)
        THEN [merged EXCEPT !["agent_state"] =
                current_context["agent_state"] \cup new_context["agent_state"]]
        ELSE merged

\* Mutant: stamped before the merge, so a last_updated of the patch wins.
update_merge_unstamped(current_context, new_context, t) ==
    dict_update(dict_update(current_context, [last_updated |-> t]),
                new_context)

\* Mutant: the patch is stored as it is, not merged over the record read.
update_merge_patch_only(current_context, new_context, t) ==
    dict_update(new_context, [last_updated |-> t])

\* Mutant: keys the stored record already has keep their stored values.
update_merge_keep(current_context, new_context, t) ==
    dict_update(dict_update(new_context, current_context),
                [last_updated |-> t])

\* update_context between its read and its write: merge, then stamp.
update_merge(current_context, new_context, t) ==
    dict_update(dict_update(current_context, new_context),
                [last_updated |-> t])

\* ------------------------------------------------------------------ agent
\* BaseChatAgent.process: a copy of the request's context with the
\* interaction under last_interaction.
agent_process(context, input_text, response, t) ==
    dict_update(context,
        [last_interaction |->
            [input |-> input_text, response |-> response, timestamp |-> t]])

\* AgentResponse: the fields process_request and its caller look at.
AgentResponse(text, updated_context, next_agent) ==
    [response_text |-> text, updated_context |-> updated_context,
     next_agent |-> next_agent]

\* Mutant: a next_agent of the response is stored as current_agent.
context_to_store_handoff(response) ==
    IF response.next_agent = "none" THEN response.updated_context
    ELSE dict_update(response.updated_context,
                     [current_agent |-> response.next_agent])

\* process_request step 4: what it passes to update_context.
context_to_store(response) == response.updated_context

\* ------------------------------------------------------------------ state
VARIABLES
    store,    \* Redis: key -> entry
    now,      \* the clock datetime.now() and Redis expiry read
    agents,   \* MCPClient.agents: the registered agent names
    call      \* per unit of work: the handler it runs and its locals

vars == <<store, now, agents, call>>

\* A unit of work that has not started.  Locals of the running frames:
\*   mat      the contexts built by the get_context frames that found
\*            nothing and are inside their call of update_context
\*   patch, inUpdate   the outermost update_context and its new_context
\*   read, cur, stamped   the innermost update_context: current_context as
\*            read, as merged and stamped, and the clock reading stamped
\*   ctx, agent, resp, next   process_request: request.context, the agent,
\*            the text and the next_agent of its response
\*   failures the failed attempts of the pending Redis command
\* and what the handler has observed and done so far:
\*   base     what its first GET found; wrote: whether a SETEX of it landed;
\*   retried  the most failed attempts a command of it survived.
IdleCall ==
    [op |-> "idle", pc |-> "idle", user |-> "none",
     patch |-> EmptyDict, inUpdate |-> FALSE, input |-> "none",
     resp |-> "none", next |-> "none", agent |-> "none", mat |-> <<>>,
     cur |-> EmptyDict,
     ctx |-> EmptyDict, read |-> EmptyDict, stamped |-> 0,
     failures |-> 0, retried |-> 0, base |-> "none", wrote |-> FALSE,
     result |-> Ok(EmptyDict), status |-> 0]

\* The handler ends (returns or raises); route_request maps a request's
\* outcome to its HTTP status.
Finish(c, res) ==
    [c EXCEPT !.pc = "done", !.result = res, !.mat = <<>>,
              !.cur = EmptyDict, !.ctx = EmptyDict, !.read = EmptyDict,
              !.stamped = 0,
              !.status = IF c.op = "process_request"
                         THEN route_request(res) ELSE 0]

\* Mutant: the registry is not consulted before dispatch.
Route_unchecked(c, context, registry) ==
    [c EXCEPT !.ctx = context,
              !.agent = dict_get(context, "current_agent", DEFAULT_AGENT),
              !.pc = "agent"]

\* process_request steps 2-3: pick the agent named by the context.
Route(c, context, registry) ==
    LET current_agent == dict_get(context, "current_agent", DEFAULT_AGENT)
    IN  IF current_agent \notin registry
        THEN Finish(c, Raise("ValueError", "Unknown agent"))
        ELSE [c EXCEPT !.ctx = context, !.agent = current_agent,
                       !.pc = "agent"]

\* new_context of the innermost update_context frame.
ActivePatch(c) == IF c.mat # <<>> THEN c.mat[Len(c.mat)] ELSE c.patch

\* Mutant: every get_context writes back what it read.
AfterGet_eager(c, context, t, registry) ==
    [c EXCEPT !.read = context, !.stamped = t,
              !.cur = update_merge(context, ActivePatch(c), t),
              !.pc = "setex"]

\* get_context returns context to its caller: the update_context of the
\* innermost materializing frame, the outermost update_context, the
\* caller of ContextManager.get_context, or process_request step 1.
AfterGet(c, context, t, registry) ==
    IF c.mat # <<>> \/ c.inUpdate
    THEN [c EXCEPT !.read = context, !.stamped = t,
                   !.cur = update_merge(context, ActivePatch(c), t),
                   !.pc = "setex"]
    ELSE IF c.op = "get_context" THEN Finish(c, Ok(context))
    ELSE Route(c, context, registry)

\* --------------------------------------------------------------- initial
\* Redis outlives the process and is written by whoever holds its password.
\* What it may hold for a key when the process starts: nothing; a record
\* sealed under this key (fresh, or used and naming an agent); an empty string;
\* a value sealed under another key; sealed text that is not JSON; a sealed
\* JSON object without the record's fields.
Nonce0 == [i \in 1..NONCE_LENGTH |-> 0]
Record0 == NewContext(0, 0)
UsedRecord ==
    [created_at |-> 0, last_updated |-> 0, interactions |-> <<"old">>,
     agent_state |-> {<<"x", 1>>}, current_agent |-> "triage"]
InitValues0 == encrypt(json_dumps(Record0), Nonce0)
InitValues ==
    {InitValues0,
     encrypt(json_dumps(UsedRecord), Nonce0),
     EmptyStr,
     b64encode(Nonce0 \o
               <<AESGCM_encrypt(ForeignKey, Nonce0, json_dumps(Record0))>>),
     encrypt(NotJson, Nonce0),
     encrypt(json_dumps(EmptyDict), Nonce0)}
InitEntries == {AbsentEntry} \cup {Entry(v, TTL) : v \in InitValues}

\* The patches callers of update_context pass.
Patches ==
    {[agent_state |-> {<<"y", 2>>}, foo |-> "bar"],
     [interactions |-> <<"entry">>, last_updated |-> 99]}

\* The files load_context is given: a record save_context wrote earlier.
Backups ==
    {[created_at |-> 1, last_updated |-> 1, interactions |-> <<"saved">>,
      agent_state |-> {}]}

Init ==
    /\ store \in [Keys -> InitEntries]
    /\ store[get_key("u2")] \in {AbsentEntry, Entry(InitValues0, TTL)}
    /\ now = 0
    /\ agents = {DEFAULT_AGENT}
    /\ call = [p \in Procs |-> IdleCall]

\* ---------------------------------------------------------------- actions
Start(p, c) ==
    /\ call[p].pc = "idle"
    /\ call' = [call EXCEPT ![p] = c]
    /\ UNCHANGED <<store, now, agents>>

\* A caller invokes ContextManager.get_context(user_id).
CallGetContext(p, u) ==
    Start(p, [IdleCall EXCEPT !.op = "get_context", !.pc = "get",
                              !.user = u])

\* A caller invokes ContextManager.update_context(user_id, new_context).
CallUpdateContext(p, u, new_context) ==
    Start(p, [IdleCall EXCEPT !.op = "update_context", !.pc = "get",
                              !.user = u, !.patch = new_context,
                              !.inUpdate = TRUE])

\* A caller invokes ContextManager.load_context(user_id, filepath): the
\* file is parsed and passed to update_context as new_context.
CallLoadContext(p, u, file) ==
    Start(p, [IdleCall EXCEPT !.op = "load_context", !.pc = "get",
                              !.user = u, !.patch = file,
                              !.inUpdate = TRUE])

\* A caller invokes ContextManager.delete_context(user_id).
CallDeleteContext(p, u) ==
    Start(p, [IdleCall EXCEPT !.op = "delete_context", !.pc = "delete",
                              !.user = u])

\* POST /route: route_request calls MCPClient.process_request, step 1.
CallProcessRequest(p, u, input_text) ==
    Start(p, [IdleCall EXCEPT !.op = "process_request", !.pc = "get",
                              !.user = u, !.input = input_text])

\* One attempt of the pending Redis command fails; the retry policy
\* repeats it or, once exhausted, the handler raises RedisError.
AttemptFails(p) ==
    LET c == call[p]
        failed == [c EXCEPT !.failures = @ + 1]
    IN  /\ c.pc \in {"get", "setex", "delete"}
        /\ call' = [call EXCEPT ![p] =
                IF RetryExhausted(failed.failures)
                THEN Finish(failed, Raise("RedisError", "Redis failed"))
                ELSE failed]
        /\ UNCHANGED <<store, now, agents>>

\* The pending Redis command fails on every attempt the policy makes:
\* AttemptFails repeated until the handler raises.
BackendUnavailable(p) ==
    LET c == call[p]
        n == CHOOSE k \in 1..(Retries + 2) :
                /\ RetryExhausted(k) \/ k = Retries + 2
                /\ \A j \in 1..(k - 1) : ~RetryExhausted(j)
    IN  /\ c.pc \in {"get", "setex", "delete"}
        /\ c.failures = 0
        /\ call' = [call EXCEPT ![p] =
                Finish([c EXCEPT !.failures = n],
                       Raise("RedisError", "Redis failed"))]
        /\ UNCHANGED <<store, now, agents>>

\* redis_client.get succeeds in the innermost get_context, which then runs
\* to its return, its raise, or its call of update_context.
RedisGet(p) ==
    LET c == call[p]
        reply == redis_get(store, get_key(c.user))
        c0 == [c EXCEPT !.failures = 0,
                        !.retried = Max(c.retried, c.failures),
                        !.base = IF c.base # "none" THEN c.base
                                 ELSE IF ~reply.present THEN "absent"
                                 ELSE IF IsWellFormed(reply.val) THEN "record"
                                 ELSE "corrupt"]
        r == ReadContext(reply.val)
    IN  /\ c.pc = "get"
        /\ call' = [call EXCEPT ![p] =
                IF IsMissing(reply)
                THEN IF Len(c.mat) >= RecursionLimit
                     THEN Finish(c0, Raise("RecursionError",
                                           "maximum recursion depth exceeded"))
                     ELSE [c0 EXCEPT !.mat = Append(@, NewContext(now, now))]
                ELSE IF r.exc # "none" THEN Finish(c0, r)
                ELSE AfterGet(c0, r.value, now, agents)]
        /\ UNCHANGED <<store, now, agents>>

\* redis_client.setex succeeds in the innermost update_context, which
\* returns; a materializing get_context above it returns its own context.
RedisSetex(p, nonce) ==
    LET c == call[p]
        c1 == [c EXCEPT !.failures = 0, !.wrote = TRUE,
                        !.retried = Max(c.retried, c.failures)]
    IN  /\ c.pc = "setex"
        /\ store' = redis_setex(store, get_key(c.user), TTL,
                                encrypt(json_dumps(c.cur), nonce), now)
        /\ call' = [call EXCEPT ![p] =
                IF c.mat # <<>>
                THEN AfterGet([c1 EXCEPT !.mat = SubSeq(@, 1, Len(@) - 1)],
                              c.mat[Len(c.mat)], now, agents)
                ELSE IF c.op = "process_request"
                THEN Finish(c1, Ok(c.patch))
                ELSE Finish(c1, Ok(EmptyDict))]
        /\ UNCHANGED <<now, agents>>

\* redis_client.delete succeeds.
RedisDelete(p) ==
    LET c == call[p]
    IN  /\ c.pc = "delete"
        /\ store' = redis_delete(store, get_key(c.user))
        /\ call' = [call EXCEPT ![p] =
                        Finish([c EXCEPT !.failures = 0,
                                         !.retried = Max(c.retried, c.failures)],
                               Ok(EmptyDict))]
        /\ UNCHANGED <<now, agents>>

\* process_request step 3 returns, and step 4 calls update_context with
\* the response's updated_context.  The built-in agent leaves next_agent
\* unset; an agent registered under another name may set it.
AgentProcess(p, text, next_agent) ==
    LET c == call[p]
        response == AgentResponse(text,
                        agent_process(c.ctx, c.input, text, now), next_agent)
    IN  /\ c.pc = "agent"
        /\ c.agent = DEFAULT_AGENT => next_agent = "none"
        /\ call' = [call EXCEPT ![p] =
                [c EXCEPT !.patch = context_to_store(response),
                          !.resp = response.response_text,
                          !.next = response.next_agent,
                          !.inUpdate = TRUE, !.pc = "get"]]
        /\ UNCHANGED <<store, now, agents>>

\* The generation call raises.
AgentRaise(p) ==
    /\ call[p].pc = "agent"
    /\ call' = [call EXCEPT ![p] =
                    Finish(call[p], Raise("RuntimeError", "generation failed"))]
    /\ UNCHANGED <<store, now, agents>>

\* MCPClient.register_agent(name, agent)
RegisterAgent(name) ==
    /\ agents' = agents \cup {name}
    /\ UNCHANGED <<store, now, call>>

\* Time passes; Redis removes the keys whose expiry is reached.
Tick ==
    /\ now < MaxClock
    /\ now' = now + 1
    /\ store' = redis_expire(store, now + 1)
    /\ UNCHANGED <<agents, call>>

Next ==
    \/ \E p \in Procs, u \in Subjects : CallGetContext(p, u)
    \/ \E p \in Procs, u \in Subjects, np \in Patches :
            CallUpdateContext(p, u, np)
    \/ \E p \in Procs, u \in Subjects : CallDeleteContext(p, u)
    \/ \E p \in Procs, u \in Subjects, i \in Inputs :
            CallProcessRequest(p, u, i)
    \/ \E p \in Procs : BackendUnavailable(p)
    \/ \E p \in Procs : RedisGet(p)
    \/ \E p \in Procs, n \in Nonces : RedisSetex(p, n)
    \/ \E p \in Procs : RedisDelete(p)
    \/ \E p \in Procs, r \in Responses, na \in NextAgents :
            AgentProcess(p, r, na)
    \/ \E p \in Procs : AgentRaise(p)
    \/ \E a \in AgentNames : RegisterAgent(a)
    \/ Tick

Spec == Init /\ [][Next]_vars

\* The same program started on a Redis that holds, per subject, nothing or
\* a record this program sealed.
InitClean ==
    /\ Init
    /\ \A k \in Keys : store[k].present => IsWellFormed(store[k].val)

SpecClean == InitClean /\ [][Next]_vars

\* The retry policy attempt by attempt: one unit of work running alone,
\* each attempt of each of its Redis commands failing or succeeding.  The
\* unit may also be a load_context, whose interleavings with other units
\* are those of the update_context it calls.
RetryProcs == {"w1"}

InitRetry ==
    /\ Init
    /\ \A k \in Keys : store[k] \in {AbsentEntry, Entry(InitValues0, TTL)}

NextRetry ==
    \/ \E p \in RetryProcs, u \in Subjects : CallGetContext(p, u)
    \/ \E p \in RetryProcs, u \in Subjects, np \in Patches :
            CallUpdateContext(p, u, np)
    \/ \E p \in RetryProcs, u \in Subjects, f \in Backups :
            CallLoadContext(p, u, f)
    \/ \E p \in RetryProcs, u \in Subjects : CallDeleteContext(p, u)
    \/ \E p \in RetryProcs, u \in Subjects, i \in Inputs :
            CallProcessRequest(p, u, i)
    \/ \E p \in RetryProcs : AttemptFails(p)
    \/ \E p \in RetryProcs : RedisGet(p)
    \/ \E p \in RetryProcs, n \in Nonces : RedisSetex(p, n)
    \/ \E p \in RetryProcs : RedisDelete(p)
    \/ \E p \in RetryProcs, r \in Responses, na \in NextAgents :
            AgentProcess(p, r, na)
    \/ \E p \in RetryProcs : AgentRaise(p)
    \/ \E a \in AgentNames : RegisterAgent(a)
    \/ Tick

SpecRetry == InitRetry /\ [][NextRetry]_vars

\* ------------------------------------------------------- sealing strings
\* EncryptionService.encrypt and decrypt on arbitrary strings.  A string is
\* a sequence of code points, str.encode() and bytes.decode() are UTF-8.
MaxLen == 2
CodePoints == {65, 233, 8364, 128512, 55296}
Plaintexts == UNION {[1..n -> CodePoints] : n \in 0..MaxLen}

IsSurrogate(c) == 55296 <= c /\ c <= 57343

\* UTF-8 of one code point (a surrogate has none).
utf8_bytes(c) ==
    IF c < 128 THEN <<c>>
    ELSE IF c < 2048 THEN <<192 + (c \div 64), 128 + (c % 64)>>
    ELSE IF c < 65536
    THEN <<224 + (c \div 4096), 128 + ((c \div 64) % 64), 128 + (c % 64)>>
    ELSE <<240 + (c \div 262144), 128 + ((c \div 4096) % 64),
           128 + ((c \div 64) % 64), 128 + (c % 64)>>

RECURSIVE str_encode(_)
\* data.encode(): the bytes, or UnicodeEncodeError on a lone surrogate.
str_encode(data) ==
    IF data = <<>> THEN [ok |-> TRUE, bytes |-> <<>>]
    ELSE LET rest == str_encode(Tail(data))
         IN  IF IsSurrogate(Head(data)) \/ ~rest.ok
             THEN [ok |-> FALSE, bytes |-> <<>>]
             ELSE [ok |-> TRUE, bytes |-> utf8_bytes(Head(data)) \o rest.bytes]

\* The length of the UTF-8 sequence a lead byte opens (0: not a lead byte).
utf8_width(b) ==
    IF b < 128 THEN 1
    ELSE IF 192 <= b /\ b < 224 THEN 2
    ELSE IF 224 <= b /\ b < 240 THEN 3
    ELSE IF 240 <= b /\ b < 248 THEN 4
    ELSE 0

\* The code point of a complete UTF-8 sequence of n bytes.
utf8_point(b, n) ==
    IF n = 1 THEN b[1]
    ELSE IF n = 2 THEN (b[1] - 192) * 64 + (b[2] - 128)
    ELSE IF n = 3
    THEN (b[1] - 224) * 4096 + (b[2] - 128) * 64 + (b[3] - 128)
    ELSE (b[1] - 240) * 262144 + (b[2] - 128) * 4096
            + (b[3] - 128) * 64 + (b[4] - 128)

RECURSIVE bytes_decode(_)
\* raw.decode('utf-8'): the string, or UnicodeDecodeError on a truncated,
\* overlong or surrogate sequence.
bytes_decode(raw) ==
    IF raw = <<>> THEN [ok |-> TRUE, text |-> <<>>]
    ELSE LET n == utf8_width(raw[1])
         IN  IF \/ n = 0
                \/ Len(raw) < n
                \/ \E i \in 2..n : raw[i] < 128 \/ raw[i] >= 192
             THEN [ok |-> FALSE, text |-> <<>>]
             ELSE LET c == utf8_point(raw, n)
                      rest == bytes_decode(SubSeq(raw, n + 1, Len(raw)))
                  IN  IF \/ IsSurrogate(c)
                         \/ utf8_bytes(c) # SubSeq(raw, 1, n)
                         \/ ~rest.ok
                      THEN [ok |-> FALSE, text |-> <<>>]
                      ELSE [ok |-> TRUE, text |-> <<c>> \o rest.text]

\* EncryptionService.encrypt(data) with the drawn nonce: any failure inside
\* is raised as EncryptionError.
encrypt_str(data, nonce) ==
    LET e == str_encode(data)
    IN  IF ~e.ok THEN Raise("EncryptionError", "Encryption failed")
        ELSE Ok(encrypt(e.bytes, nonce))

\* EncryptionService.decrypt(encrypted_data).
decrypt_str(encrypted_data) ==
    LET d == decrypt(encrypted_data)
    IN  IF ~d.ok THEN Raise("EncryptionError", "Data integrity check failed")
        ELSE LET t == bytes_decode(d.data)
             IN  IF ~t.ok THEN Raise("EncryptionError", "Decryption failed")
                 ELSE Ok(t.text)

\* One unit of work seals a string and opens what it got.
SealProcs == {"w1"}
SealCall(data, nonce) ==
    [op |-> "seal", pc |-> "idle", data |-> data, nonce |-> nonce,
     sealed |-> Ok(EmptyStr), opened |-> Ok(<<>>)]

InitSeal ==
    /\ store = [k \in Keys |-> AbsentEntry]
    /\ now = 0
    /\ agents = {DEFAULT_AGENT}
    /\ call \in [SealProcs -> {SealCall(d, n) : d \in Plaintexts, n \in Nonces}]

\* encrypt(data) returns or raises.
Encrypt(p) ==
    LET c == call[p]
        r == encrypt_str(c.data, c.nonce)
    IN  /\ c.pc = "idle"
        /\ call' = [call EXCEPT ![p] =
                [c EXCEPT !.sealed = r,
                          !.pc = IF r.exc = "none" THEN "sealed" ELSE "done"]]
        /\ UNCHANGED <<store, now, agents>>

\* decrypt of the text encrypt returned.
Decrypt(p) ==
    LET c == call[p]
    IN  /\ c.pc = "sealed"
        /\ call' = [call EXCEPT ![p] =
                [c EXCEPT !.opened = decrypt_str(c.sealed.value),
                          !.pc = "done"]]
        /\ UNCHANGED <<store, now, agents>>

NextSeal ==
    \/ \E p \in SealProcs : Encrypt(p)
    \/ \E p \in SealProcs : Decrypt(p)

SpecSeal == InitSeal /\ [][NextSeal]_vars

\* ------------------------------------------------------- process start
\* EncryptionService.__init__ at the start of a process.  An object is a
\* dict of its attributes; the working directory holds the salt file.
SALT_LENGTH == 16
KDF_LENGTH == 32
SaltFile == "salt.key"
Secrets == {"", "secret-1", "secret-2"}
\* os.urandom(SALT_LENGTH): the salts the random source can return.
Salts == {[i \in 1..SALT_LENGTH |-> b] : b \in {0, 1}}

NoFile == [present |-> FALSE, val |-> <<>>]
File(content) == [present |-> TRUE, val |-> content]

\* PBKDF2HMAC(length=32, salt).derive(password): KDF_LENGTH bytes bound to
\* the password and the salt.
PBKDF2(password, salt) == [kdf |-> <<password, salt>>, len |-> KDF_LENGTH]
\* base64 of n bytes is 4 * ceil(n / 3) characters.
urlsafe_b64encode(raw) == [b64 |-> raw, len |-> 4 * ((raw.len + 2) \div 3)]

\* _derive_key reads self.salt.
derive_key(self, password) ==
    IF "salt" \notin DOMAIN self
    THEN Raise("AttributeError", "object has no attribute 'salt'")
    ELSE Ok(urlsafe_b64encode(PBKDF2(password, self["salt"])))

\* AESGCM(key) accepts keys of 16, 24 or 32 bytes.
AESGCM(key) ==
    IF key.len \in {16, 24, 32} THEN Ok([aesgcm |-> key])
    ELSE Raise("ValueError", "AESGCM key must be 128, 192, or 256 bits.")

\* _load_or_create_salt: read the salt file, or draw a salt and write it.
load_or_create_salt(self, disk, random) ==
    IF disk[SaltFile].present
    THEN [self |-> dict_update(self, [salt |-> disk[SaltFile].val]),
          disk |-> disk]
    ELSE [self |-> dict_update(self, [salt |-> random]),
          disk |-> [disk EXCEPT ![SaltFile] = File(random)]]

\* __init__, statement by statement: the object, the directory and the
\* outcome it leaves.
EncryptionService_init(secret, disk, random) ==
    IF secret = ""
    THEN [result |-> Raise("ValueError",
                           "Encryption key not set in environment variables"),
          self |-> EmptyDict, disk |-> disk]
    ELSE LET k == derive_key(EmptyDict, secret)
         IN  IF k.exc # "none"
             THEN [result |-> k, self |-> EmptyDict, disk |-> disk]
             ELSE LET c == AESGCM(k.value)
                  IN  IF c.exc # "none"
                      THEN [result |-> c, self |-> [key |-> k.value],
                            disk |-> disk]
                      ELSE LET l == load_or_create_salt(
                                        [key |-> k.value, cipher |-> c.value],
                                        disk, random)
                           IN  [result |-> Ok(EmptyDict), self |-> l.self,
                                disk |-> l.disk]

\* A process about to start with its ENCRYPTION_KEY and the salt its
\* random source would return.
StartCall(secret, random) ==
    [op |-> "start", pc |-> "idle", secret |-> secret, random |-> random,
     self |-> EmptyDict, result |-> Ok(EmptyDict)]

InitStart ==
    /\ store \in [{SaltFile} -> {NoFile} \cup {File(s) : s \in Salts}]
    /\ now = 0
    /\ agents = {DEFAULT_AGENT}
    /\ call \in [Procs -> {StartCall(k, s) : k \in Secrets, s \in Salts}]

\* A process starts: ContextManager.__init__ constructs the service.
Construct(p) ==
    LET c == call[p]
        r == EncryptionService_init(c.secret, store, c.random)
    IN  /\ c.pc = "idle"
        /\ call' = [call EXCEPT ![p] =
                [c EXCEPT !.pc = "done", !.self = r.self, !.result = r.result]]
        /\ store' = r.disk
        /\ UNCHANGED <<now, agents>>

NextStart == \E p \in Procs : Construct(p)

SpecStart == InitStart /\ [][NextStart]_vars

\* ================================================================ claims
\* The record a stored value opens to.
Open(val) == ReadContext(val).value
KeyOf(p) == get_key(call[p].user)

\* The step in which a SETEX of p lands.
Landed(p) ==
    /\ call[p].pc = "setex"
    /\ call'[p].wrote
    /\ call'[p].failures = 0
    /\ call'[p].pc # "setex" \/ Len(call'[p].mat) # Len(call[p].mat)

\* The step in which the handler of p returns or raises.
Ends(p) == call[p].pc # "done" /\ call'[p].pc = "done"

IsFreshRecord(r) ==
    /\ RecordKeys \subseteq DOMAIN r
    /\ r.interactions = <<>>
    /\ r.agent_state = {}

\* C1: a get_context whose first GET finds no entry, and whose Redis
\* commands all succeed, returns a fully initialized record (created_at,
\* last_updated, empty interactions, empty agent_state), and when it
\* returns Redis holds an entry for the subject.
C1_GetMaterializesAbsent ==
    [][\A p \in Procs :
        (/\ Ends(p)
         /\ call[p].op = "get_context"
         /\ call'[p].base = "absent"
         /\ call'[p].result.exc # "RedisError")
        => (/\ call'[p].result.exc = "none"
            /\ IsFreshRecord(call'[p].result.value)
            /\ store'[KeyOf(p)].present)]_vars

\* C2 as stated: the record a landed update_context stores has the patch's
\* value under every top-level key of the patch.
C2_PatchKeysAllStored ==
    [][\A p \in Procs : Landed(p) =>
        LET w == Open(store'[KeyOf(p)].val)
            new == ActivePatch(call[p])
        IN  \A k \in DOMAIN new : k \in DOMAIN w /\ w[k] = new[k]]_vars

\* C2 as amended: the record a landed update_context stores has the patch's
\* value under every top-level key of the patch other than last_updated
\* (whole values replaced, nothing merged or appended), the value the
\* update read under every other key except last_updated, and no key
\* besides those and last_updated.
C2_ShallowMerge ==
    [][\A p \in Procs : Landed(p) =>
        LET w == Open(store'[KeyOf(p)].val)
            new == ActivePatch(call[p])
            old == call[p].read
        IN  /\ DOMAIN w = (DOMAIN old) \cup (DOMAIN new) \cup {"last_updated"}
            /\ \A k \in (DOMAIN new) \ {"last_updated"} : w[k] = new[k]
            /\ \A k \in (DOMAIN old) \ ((DOMAIN new) \cup {"last_updated"}) :
                    w[k] = old[k]]_vars

\* C2 witness: an update_context whose patch carries agent_state and foo has
\* landed on the used record; agent_state is the patch's alone and the
\* interactions and current_agent of the record are still there.
C2_Witness ==
    \E p \in Procs :
        /\ call[p].op = "update_context" /\ call[p].pc = "done"
        /\ call[p].result.exc = "none"
        /\ "foo" \in DOMAIN call[p].patch
        /\ store[KeyOf(p)].present
        /\ LET w == Open(store[KeyOf(p)].val)
           IN  /\ DOMAIN w = (DOMAIN UsedRecord) \cup {"foo"}
               /\ w.agent_state = {<<"y", 2>>}
               /\ w.interactions = <<"old">>
               /\ w.current_agent = "triage"

\* C3: a get_context or update_context whose first GET returns a value that
\* does not open to a well-formed record raises EncryptionError or
\* ValueError (never RedisError, never a return) at once, and writes nothing.
C3_CorruptNeverAbsent ==
    \A p \in Procs :
        (call[p].op \in {"get_context", "update_context"}
            /\ call[p].base = "corrupt")
        => (/\ call[p].pc = "done"
            /\ call[p].result.exc \in {"EncryptionError", "ValueError"}
            /\ ~call[p].wrote)

GetStep(p) ==
    /\ call[p].pc = "get"
    /\ call'[p].pc # "get" \/ Len(call'[p].mat) # Len(call[p].mat)

UnknownAgent(p) ==
    /\ call[p].op = "process_request"
    /\ call[p].pc = "done"
    /\ call[p].result.exc = "ValueError"
    /\ call[p].result.msg = "Unknown agent"

\* C5: a request is dispatched only to a registered agent, the one its
\* context names under current_agent or, when the context has no such key,
\* base_chat; a request that fails with the unknown-agent error has invoked
\* no agent and landed no write.
C5_Routing ==
    \A p \in Procs :
        call[p].op = "process_request" =>
            /\ call[p].agent # "none" => call[p].agent \in agents
            /\ (call[p].agent # "none" /\ call[p].pc # "done") =>
                   call[p].agent =
                       IF "current_agent" \in DOMAIN call[p].ctx
                       THEN call[p].ctx.current_agent ELSE "base_chat"
            /\ UnknownAgent(p) =>
                   /\ call[p].agent = "none"
                   /\ call[p].resp = "none"
                   /\ ~call[p].wrote

\* C5 witness: one request has failed with the unknown-agent error on a
\* stored record, another is at its agent, base_chat, with a context that
\* has no current_agent.
C5_Witness ==
    \E p, q \in Procs :
        /\ UnknownAgent(p) /\ call[p].base = "record"
        /\ call[q].op = "process_request" /\ call[q].pc = "agent"
        /\ call[q].agent = "base_chat"
        /\ "current_agent" \notin DOMAIN call[q].ctx

\* C6: a failed request is answered 400 when the failure is the
\* unknown-agent error and 500 for every other failure.
C6_ErrorClasses ==
    \A p \in Procs :
        (call[p].op = "process_request" /\ call[p].pc = "done"
            /\ call[p].result.exc # "none")
        => call[p].status = IF UnknownAgent(p) THEN 400 ELSE 500

\* C7: the record a landed update_context stores carries under last_updated
\* the clock reading update_context took, whatever the patch holds there.
C7_ServerStamp ==
    [][\A p \in Procs : Landed(p) =>
        /\ Open(store'[KeyOf(p)].val).last_updated = call[p].stamped
        /\ call[p].stamped <= now]_vars

\* C7 witness: an update_context whose patch carries a last_updated of its
\* own has landed, and the stored last_updated is not the patch's.
C7_Witness ==
    \E p \in Procs :
        /\ call[p].op = "update_context" /\ call[p].pc = "done"
        /\ call[p].result.exc = "none"
        /\ "last_updated" \in DOMAIN call[p].patch
        /\ store[KeyOf(p)].present
        /\ LET w == Open(store[KeyOf(p)].val)
           IN  /\ w.interactions = call[p].patch.interactions
               /\ w.last_updated # call[p].patch.last_updated
               /\ w.last_updated <= now

\* C8: a landed write leaves the entry expiring exactly TTL later; no GET
\* changes an entry or its expiry; an entry is present only before its
\* expiry, and goes away only when its expiry is reached or by a delete.
C8_TtlRefreshed ==
    /\ [](\A k \in Keys : store[k].present => now < store[k].exp)
    /\ [][/\ \A p \in Procs : Landed(p) =>
                /\ store'[KeyOf(p)].present
                /\ store'[KeyOf(p)].exp = now + TTL
          /\ \A p \in Procs : GetStep(p) => store' = store
          /\ \A k \in Keys : (store[k].present /\ ~store'[k].present) =>
                \/ now' > now /\ store[k].exp <= now'
                \/ \E p \in Procs : /\ call[p].pc = "delete"
                                    /\ KeyOf(p) = k
                                    /\ Ends(p)]_vars

\* C8 witness: a write that landed after time 0 is still there one clock
\* reading later, due to expire TTL after the write.
C8_Witness ==
    \E p \in Procs :
        /\ call[p].wrote /\ call[p].pc = "done"
        /\ call[p].result.exc = "none"
        /\ store[KeyOf(p)].present
        /\ store[KeyOf(p)].exp > TTL
        /\ store[KeyOf(p)].exp = now + TTL - 1

\* C9: when a get_context whose first GET found no entry returns a record,
\* that record has created_at <= last_updated and is the record Redis then
\* holds for the subject (what the next get_context would return).
C9_SecondGetSame ==
    [][\A p \in Procs :
        (/\ Ends(p)
         /\ call[p].op = "get_context"
         /\ call'[p].base = "absent"
         /\ call'[p].result.exc = "none")
        => LET r == call'[p].result.value
           IN  /\ r.created_at <= r.last_updated
               /\ store'[KeyOf(p)].present
               /\ Open(store'[KeyOf(p)].val) = r]_vars

\* C10: the write of a successful process_request stores a record whose
\* interactions are those of the context the request read plus one entry
\* carrying the input and the response, with last_updated after created_at.
C10_LogExtended ==
    [][\A p \in Procs :
        (/\ Landed(p)
         /\ call[p].op = "process_request"
         /\ call[p].inUpdate /\ call[p].mat = <<>>
         /\ RecordKeys \subseteq DOMAIN call[p].ctx)
        => LET w == Open(store'[KeyOf(p)].val)
               before == call[p].ctx.interactions
           IN  /\ Len(w.interactions) = Len(before) + 1
               /\ w.interactions[Len(w.interactions)].input = call[p].input
               /\ w.interactions[Len(w.interactions)].response = call[p].resp
               /\ w.last_updated > w.created_at]_vars

\* The step in which the DEL of a delete_context of p succeeds.
DeleteStep(p) ==
    /\ call[p].op = "delete_context"
    /\ call[p].pc = "delete"
    /\ call'[p].pc = "done"
    /\ call'[p].result.exc # "RedisError"

\* C11: a delete_context whose DEL succeeds returns without error and leaves
\* no entry under the subject's key; when the key held no entry before, the
\* store is left exactly as it was; delete_context ends in no error other
\* than the backend's.
C11_DeleteIdempotent ==
    /\ [](\A p \in Procs : call[p].op = "delete_context" =>
                call[p].result.exc \in {"none", "RedisError"})
    /\ [][\A p \in Procs : DeleteStep(p) =>
            /\ call'[p].result = Ok(EmptyDict)
            /\ ~store'[KeyOf(p)].present
            /\ store'[KeyOf(p)] = AbsentEntry
            /\ ~store[KeyOf(p)].present => store' = store]_vars

\* C11 witness: two delete_context calls for the same subject have both
\* returned without error before any key could expire (so the later one
\* found no entry), and the subject has no entry.
C11_Witness ==
    \E p, q \in Procs :
        /\ p # q
        /\ call[p].op = "delete_context" /\ call[q].op = "delete_context"
        /\ call[p].user = call[q].user
        /\ call[p].pc = "done" /\ call[q].pc = "done"
        /\ call[p].result.exc = "none" /\ call[q].result.exc = "none"
        /\ ~store[KeyOf(p)].present
        /\ now = 0

\* C12 as stated: encrypt returns for every string, and decrypt of what it
\* returned is the string.
C12_RoundTripAll ==
    \A p \in SealProcs :
        /\ call[p].pc # "idle" => call[p].sealed.exc = "none"
        /\ call[p].pc = "done" =>
                /\ call[p].opened.exc = "none"
                /\ call[p].opened.value = call[p].data

\* C12 as amended: for every string that encodes as UTF-8, encrypt returns
\* the base64 text of the nonce (NONCE_LENGTH bytes) followed by the
\* ciphertext and tag under that nonce, and decrypt of it, which takes the
\* first NONCE_LENGTH bytes as the nonce, returns the string; for a string
\* with a lone surrogate encrypt raises EncryptionError.
C12_RoundTrip ==
    \A p \in SealProcs :
        LET c == call[p]
            raw == b64decode(c.sealed.value)
        IN  /\ c.pc # "idle" =>
                    (c.sealed.exc = "none"
                        <=> \A i \in 1..Len(c.data) : ~IsSurrogate(c.data[i]))
            /\ (c.pc # "idle" /\ c.sealed.exc # "none") =>
                    c.pc = "done" /\ c.sealed.exc = "EncryptionError"
            /\ (c.pc # "idle" /\ c.sealed.exc = "none") =>
                    /\ Len(raw) = NONCE_LENGTH + 1
                    /\ SubSeq(raw, 1, NONCE_LENGTH) = c.nonce
                    /\ AESGCM_verifies(Key, c.nonce, raw[NONCE_LENGTH + 1])
            /\ (c.pc = "done" /\ c.sealed.exc = "none") =>
                    /\ c.opened.exc = "none"
                    /\ c.opened.value = c.data

\* C12 witness: a two-character string with characters of two and four
\* UTF-8 bytes has been sealed and opened to itself.
C12_Witness ==
    \E p \in SealProcs :
        /\ call[p].pc = "done"
        /\ call[p].data = <<233, 128512>>
        /\ call[p].sealed.exc = "none"
        /\ call[p].opened = Ok(<<233, 128512>>)

\* A request of p has been answered with a failure.
FailedRequest(p) ==
    /\ call[p].op = "process_request"
    /\ call[p].pc = "done"
    /\ call[p].result.exc # "none"

\* C13: any two failed requests, neither failing with the unknown-agent
\* error, are answered with the same body, whatever exception each met
\* inside.
C13_GenericFailureBody ==
    \A p, q \in Procs :
        (FailedRequest(p) /\ ~UnknownAgent(p)
            /\ FailedRequest(q) /\ ~UnknownAgent(q))
        => http_detail(call[p].result) = http_detail(call[q].result)

\* A request of q has returned after landing its write.
Answered(q) ==
    /\ call[q].op = "process_request"
    /\ call[q].pc = "done"
    /\ call[q].result.exc = "none"
    /\ call[q].wrote

\* The request of q computed its patch from the context d.
PatchedFrom(q, d) ==
    /\ DOMAIN call[q].patch = (DOMAIN d) \cup {"last_interaction"}
    /\ \A k \in (DOMAIN d) \ {"last_interaction"} : call[q].patch[k] = d[k]

\* C14: when the write of a request lands after another request for the
\* same subject, which read the same well-formed record in step 1, has landed its own
\* and returned, the write is accepted, the request returns without error,
\* and the stored record is the later writer's patch under every key but
\* last_updated: nothing of the earlier writer's patch is kept.
C14_LastWriterWins ==
    [][\A p, q \in Procs :
        (/\ p # q
         /\ Landed(p)
         /\ call[p].op = "process_request" /\ call[p].mat = <<>>
         /\ call[p].base = "record"
         /\ Answered(q)
         /\ call[q].user = call[p].user
         /\ PatchedFrom(q, call[p].ctx))
        => LET w == Open(store'[KeyOf(p)].val)
           IN  /\ call'[p].pc = "done"
               /\ call'[p].status = 200
               /\ DOMAIN w = (DOMAIN call[p].patch) \cup {"last_updated"}
               /\ \A k \in (DOMAIN call[p].patch) \ {"last_updated"} :
                        w[k] = call[p].patch[k]]_vars

\* C14 witness: two requests for one subject have both been answered 200;
\* both patches were computed from the same stored record, read before
\* either write (each patch still carries the last_updated of that record,
\* older than both interactions); the interactions differ and the stored
\* record holds one of them only.
C14_Witness ==
    \E p, q \in Procs :
        /\ p # q
        /\ Answered(p) /\ Answered(q)
        /\ call[p].status = 200 /\ call[q].status = 200
        /\ call[p].user = call[q].user
        /\ PatchedFrom(q, call[p].patch) /\ PatchedFrom(p, call[q].patch)
        /\ "last_updated" \in DOMAIN call[p].patch
        /\ call[p].patch.last_updated < call[p].patch.last_interaction.timestamp
        /\ call[p].patch.last_interaction.timestamp
                < call[q].patch.last_interaction.timestamp
        /\ store[KeyOf(p)].present
        /\ LET w == Open(store[KeyOf(p)].val)
           IN  /\ w.last_interaction = call[q].patch.last_interaction
               /\ w.last_interaction # call[p].patch.last_interaction
               /\ w.interactions = call[p].patch.interactions

\* C15: a start with a secret set ends with the service constructed, the
\* salt file present, the service's salt the file's content and its key
\* derived from the secret and that salt (so two starts with one secret
\* hold one key); a salt file that exists is never written.
C15_SaltThenKey ==
    /\ [](\A p \in Procs :
            (call[p].pc = "done" /\ call[p].secret # "") =>
                /\ call[p].result.exc = "none"
                /\ store[SaltFile].present
                /\ call[p].self["salt"] = store[SaltFile].val
                /\ call[p].self["key"] =
                        urlsafe_b64encode(PBKDF2(call[p].secret,
                                                 store[SaltFile].val)))
    /\ [](\A p, q \in Procs :
            (call[p].pc = "done" /\ call[q].pc = "done"
                /\ call[p].secret # "" /\ call[p].secret = call[q].secret)
            => call[p].self = call[q].self)
    /\ [][store[SaltFile].present => store' = store]_vars

\* C16: as long as a key holds a well-formed record, every step leaves it
\* holding a well-formed record with the same created_at.
C16_CreatedAtFixed ==
    [][\A k \in Keys :
        (IsWellFormed(store[k].val) /\ store'[k].present)
        => /\ IsWellFormed(store'[k].val)
           /\ Open(store'[k].val).created_at = Open(store[k].val).created_at]_vars

\* A stored value is one sealed blob: the base64 text of a nonce followed by
\* one ciphertext and tag under this process's key.
IsSealedBlob(val) ==
    LET raw == b64decode(val)
    IN  /\ Len(raw) = NONCE_LENGTH + 1
        /\ AESGCM_verifies(Key, SubSeq(raw, 1, NONCE_LENGTH),
                           raw[NONCE_LENGTH + 1])

\* C17: started on a Redis holding only absent keys and records of this
\* program, every reachable state (whichever requests have failed or stopped
\* at a Redis command or at the agent) has under each subject's key nothing,
\* or one sealed blob that opens to a record with created_at, last_updated,
\* interactions and agent_state.
C17_WholeBlob ==
    \A k \in Keys :
        store[k].present =>
            /\ IsSealedBlob(store[k].val)
            /\ IsWellFormed(store[k].val)

\* C17 witness: a request failed at step 4 (after its agent returned, at the
\* re-read or the write) and wrote nothing, another stopped before its
\* write, and the subject's key holds a record written by the program.
C17_Witness ==
    \E p, q \in Procs :
        /\ p # q
        /\ FailedRequest(p) /\ call[p].resp # "none" /\ ~call[p].wrote
        /\ call[q].op = "process_request" /\ call[q].pc = "setex"
        /\ call[q].user = call[p].user
        /\ store[KeyOf(p)].present
        /\ IsWellFormed(store[KeyOf(p)].val)
        /\ now > 0

C19_SubjectIsolation ==
    [][\A p \in Procs :
        (call'[p] # call[p]
            /\ call'[p].op \in {"get_context", "update_context",
                                "delete_context", "process_request"})
        => \A u \in Subjects \ {call'[p].user} :
                store'[get_key(u)] = store[get_key(u)]]_vars

\* C19 witness: a write for u1 and a delete for u1 have both landed, u1 has
\* no entry any more, and the entry of u2 is the one the run started with.
C19_Witness ==
    \E p, q \in Procs :
        /\ call[p].user = "u1" /\ call[q].user = "u1"
        /\ call[p].wrote /\ call[p].pc = "done"
        /\ call[q].op = "delete_context" /\ call[q].pc = "done"
        /\ call[q].result.exc = "none"
        /\ ~store[get_key("u1")].present
        /\ store[get_key("u2")] = Entry(InitValues0, TTL)

\* The step in which step 1 of a request of p gets its answer from Redis.
RoutingStep(p) ==
    /\ call[p].op = "process_request"
    /\ call[p].pc = "get" /\ ~call[p].inUpdate /\ call[p].mat = <<>>
    /\ call'[p].pc \in {"agent", "done"}
    /\ call'[p].result.exc # "RedisError"

\* C20 as stated, last part: while base_chat is the only registered agent,
\* no request is refused as naming an unknown agent.
C20_AlwaysBaseChat ==
    \A p \in Procs : agents = {"base_chat"} => ~UnknownAgent(p)

\* C20 as amended: the record a request's write stores has the
\* current_agent of the context the request read in step 1 or, when that
\* context has none, of the record the update re-read (none when both have
\* none), whatever next_agent the response carries; a request whose stored
\* record has no current_agent is dispatched to base_chat; and while
\* base_chat is the only registered agent no request is dispatched to
\* another.
C20_NextAgentIgnored ==
    /\ [](\A p \in Procs :
            agents = {"base_chat"} => call[p].agent \in {"none", "base_chat"})
    /\ [][\A p \in Procs :
            /\ (Landed(p) /\ call[p].op = "process_request"
                    /\ call[p].mat = <<>>) =>
                    LET w == Open(store'[KeyOf(p)].val)
                        src == IF "current_agent" \in DOMAIN call[p].ctx
                               THEN call[p].ctx ELSE call[p].read
                    IN  /\ "current_agent" \in DOMAIN w
                                <=> "current_agent" \in DOMAIN src
                        /\ "current_agent" \in DOMAIN w =>
                                w["current_agent"] = src["current_agent"]
            /\ (RoutingStep(p) /\ IsWellFormed(store[KeyOf(p)].val)
                    /\ "current_agent" \notin
                            DOMAIN Open(store[KeyOf(p)].val)) =>
                    /\ call'[p].pc = "agent"
                    /\ call'[p].agent = "base_chat"]_vars

\* C20 witness: a request dispatched to the agent named by its record,
\* whose response carried another agent's name as next_agent, has been
\* answered 200, and the stored current_agent is still the one it read.
C20_Witness ==
    \E p \in Procs :
        /\ Answered(p) /\ call[p].status = 200
        /\ call[p].agent = "triage"
        /\ call[p].next = "base_chat"
        /\ store[KeyOf(p)].present
        /\ Open(store[KeyOf(p)].val)["current_agent"] = "triage"
        /\ "last_interaction" \in DOMAIN Open(store[KeyOf(p)].val)

====
